---------------------------- MODULE Spec2Model ----------------------------
(***************************************************************************)
(* Model of utils.calculate_sheathing (src/utils.py), the sheet estimator  *)
(* of the Construction Sheathing Calculator.                               *)
(*                                                                         *)
(* The function computes on Python floats; the model computes on exact     *)
(* rationals, each held as an integer in a fixed unit:                     *)
(*   length, width, shed_width, shed_depth  feet in the source, held in    *)
(*                                          inches (1/12 ft)               *)
(*   overhang, sheet_width                  inches in the source and here  *)
(*   height, shed_height                    feet in the source, held in    *)
(*                                          ticks (1/Res inch)             *)
(*   pitch, shed_pitch                      x/12 in the source, held in    *)
(*                                          1/Res of a pitch unit          *)
(* An optional argument is <<>> for None and <<v>> for the value v.        *)
(* math.ceil and round are taken on the exact quotient: a float quotient   *)
(* that lands one ulp off a whole or a half number can differ by one.      *)
(* Results: gable sheet lengths are held in inches (the source stores      *)
(* n/12 ft), roof sheet lengths in half feet (the source stores n/2 ft).   *)
(***************************************************************************)
EXTENDS Integers, Sequences, FiniteSets

\* ----------------------------------------------------------------- bounds

\* ticks per inch: the resolution of height and of pitch
Res == 4
\* length sweeps -1 .. MaxLengthFt whole feet
MaxLengthFt == 2
\* width sweeps -1 .. MaxWidthFt whole feet
MaxWidthFt == 3
\* height sweeps one foot plus 0 .. MaxHeightTicks ticks
MaxHeightTicks == 3
\* pitch sweeps 0 .. MaxPitchTicks ticks
MaxPitchTicks == 1
\* overhang sweeps 0 .. MaxOverhang inches
MaxOverhang == 1
\* sheet width sweeps MinSheetWidth .. MinSheetWidth + MaxSheetExtra inches
MaxSheetExtra == 1
\* shed width and depth sweep -1 .. MaxShedFt whole feet
MaxShedFt == 1

\* ------------------------------------------------------ program constants

InchesPerFoot == 12
DefaultLength == 40
DefaultWidth == 30
DefaultHeight == 10
DefaultPitch == 4
MaxValidPitch == 12
DefaultOverhang == 16
MinSheetWidth == 10
MaxSheetWidth == 48
DefaultSheetWidth == 36
DefaultShedWidth == 12
DefaultShedDepth == 20
DefaultShedPitch == 3
DefaultShedHeight == 8

\* ------------------------------------------------------------- arithmetic

\* math.ceil(a / b) for b # 0
CeilDiv(a, b) ==
    LET n == IF b < 0 THEN -a ELSE a
        d == IF b < 0 THEN -b ELSE b
    IN  -((-n) \div d)

\* math.floor(a / b) for b # 0
FloorDiv(a, b) ==
    LET n == IF b < 0 THEN -a ELSE a
        d == IF b < 0 THEN -b ELSE b
    IN  n \div d

\* round(a / b) for b > 0: Python 3 rounds a half to the even neighbour
RoundHalfEven(a, b) ==
    LET q == a \div b
        r == a - q * b
    IN  IF 2 * r < b THEN q
        ELSE IF 2 * r > b THEN q + 1
        ELSE IF q % 2 = 0 THEN q ELSE q + 1

RECURSIVE CeilRootFrom(_, _, _)
CeilRootFrom(n, sq, unit) ==
    IF (n * unit) * (n * unit) >= sq THEN n ELSE CeilRootFrom(n + 1, sq, unit)

\* math.ceil(math.sqrt(sq) / unit) for sq >= 0, unit > 0
CeilRoot(sq, unit) == CeilRootFrom(0, sq, unit)

\* ------------------------------------------------- calculate_sheathing

\* gable_width = width + 2 * overhang_ft, in inches
gable_width(w, oh) == w + 2 * oh

\* half_gable_width = gable_width / 2, in 1/24 ft (half inches)
half_gable_width(w, oh) == gable_width(w, oh)

\* peak_height = half_gable_width * (pitch / 12), in 1/(288 * Res) ft
peak_height(w, oh, p) == half_gable_width(w, oh) * p

\* sheets_per_side = math.ceil(width / (2 * sheet_width_ft))
sheets_per_side_floor(w, sw) == FloorDiv(w, 2 * sw)

sheets_per_side(w, sw) == CeilDiv(w, 2 * sw)

\* rise_per_sheet_inches = math.ceil((sheet_width * pitch) / 12)
rise_per_sheet_inches(sw, p) == CeilDiv(sw * p, InchesPerFoot * Res)

\* start_length + i * rise_per_sheet_feet, rounded to the inch, in inches:
\* round(sheet_length * 12), the numerator of the value the source stores
sheet_length(h, rise, i) == RoundHalfEven(h + (i + 1) * rise * Res, Res)

\* the ascending loop over range(sheets_per_side), then the descending
\* loop over range(sheets_per_side - 1, -1, -1)
gable_sheet_lengths_nopeak(h, rise, n) ==
    IF n <= 0 THEN << >>
    ELSE [k \in 1..n |-> sheet_length(h, rise, k - 1)]
         \o [k \in 1..(n - 1) |-> sheet_length(h, rise, n - 1 - k)]

gable_sheet_lengths(h, rise, n) ==
    IF n <= 0 THEN << >>
    ELSE [k \in 1..n |-> sheet_length(h, rise, k - 1)]
         \o [k \in 1..n |-> sheet_length(h, rise, n - k)]

\* eave_wall_sheets = math.ceil(length / sheet_width_ft) * 2
eave_wall_sheets_floor(l, sw) == FloorDiv(l, sw) * 2

eave_wall_sheets(l, sw) == CeilDiv(l, sw) * 2

\* roof_slope_length ** 2 = roof_run ** 2 + peak_height ** 2,
\* in (1/(288 * Res) ft) squared
roof_slope_length_sq(w, oh, p) ==
    LET run == half_gable_width(w, oh) * InchesPerFoot * Res
        rise == peak_height(w, oh, p)
    IN  run * run + rise * rise

\* roof_sheets_per_side = math.ceil(roof_length / sheet_width_ft)
roof_sheets_per_side(l, oh, sw) == CeilDiv(l + 2 * oh, sw)

\* roof_sheet_length = math.ceil(roof_slope_length * 2) / 2, in half feet
roof_sheet_length_floor(w, oh, p) ==
    LET c == CeilRoot(roof_slope_length_sq(w, oh, p), 144 * Res)
    IN  IF (c * 144 * Res) * (c * 144 * Res) = roof_slope_length_sq(w, oh, p)
        THEN c ELSE c - 1

roof_sheet_length(w, oh, p) ==
    CeilRoot(roof_slope_length_sq(w, oh, p), 144 * Res)

\* include_shed and all(x is not None for x in [...])
shed_selected_noflag(inc, sw, sd, sp, sh) ==
    /\ sw # << >> /\ sd # << >> /\ sp # << >> /\ sh # << >>

shed_selected(inc, sw, sd, sp, sh) ==
    /\ inc
    /\ sw # << >> /\ sd # << >> /\ sp # << >> /\ sh # << >>

\* shed_peak_height = shed_width * (shed_pitch / 12), in 1/(144 * Res) ft
shed_peak_height(sw, sp) == sw * sp

\* math.ceil(shed_roof_slope_length * 2) / 2, in half feet; the run is the
\* whole shed width
shed_roof_sheet_length(sw, sp) == roof_sheet_length(2 * sw, 0, sp)

\* f"{shed_height} to {shed_height + shed_peak_height:.1f}": the lower end
\* as given (ticks), the upper end in tenths of a foot
shed_side_length(sw, sp, sh) ==
    [lo |-> sh,
     hi |-> RoundHalfEven(10 * (InchesPerFoot * sh + shed_peak_height(sw, sp)),
                          144 * Res)]

\* results = { "Eave Walls": ..., "Gable Triangles": ..., "Roof": ... }
base_sections(l, w, h, p, oh, sw) ==
    LET lens == gable_sheet_lengths(h, rise_per_sheet_inches(sw, p),
                                    sheets_per_side(w, sw))
    IN  << [Section |-> "Eave Walls",
            Sheets |-> eave_wall_sheets(l, sw),
            SheetLength |-> h],
           [Section |-> "Gable Triangles",
            Sheets |-> Len(lens) * 2,
            SheetLengths |-> lens],
           [Section |-> "Roof",
            Sheets |-> roof_sheets_per_side(l, oh, sw) * 2,
            SheetLength |-> roof_sheet_length(w, oh, p)] >>

\* results.update({ "Shed Front/Back Walls": ..., "Shed Side Wall": ...,
\* "Shed Roof": ... })
shed_sections(sheetw, sw, sd, sp, sh) ==
    << [Section |-> "Shed Front/Back Walls",
        Sheets |-> CeilDiv(sw, sheetw) * 2,
        SheetLength |-> sh],
       [Section |-> "Shed Side Wall",
        Sheets |-> CeilDiv(sd, sheetw),
        SheetLength |-> shed_side_length(sw, sp, sh)],
       [Section |-> "Shed Roof",
        Sheets |-> CeilDiv(sd, sheetw),
        SheetLength |-> shed_roof_sheet_length(sw, sp)] >>

\* ------------------------------------------------------------------ state

VARIABLES
    length, width, height, pitch, overhang, sheet_width,
    include_shed, shed_width, shed_depth, shed_pitch, shed_height,
    pc, results

args == << length, width, height, pitch, overhang, sheet_width,
           include_shed, shed_width, shed_depth, shed_pitch, shed_height >>

vars == << length, width, height, pitch, overhang, sheet_width,
           include_shed, shed_width, shed_depth, shed_pitch, shed_height,
           pc, results >>

Lengths ==
    {k * InchesPerFoot : k \in -1..MaxLengthFt}
        \cup {DefaultLength * InchesPerFoot}

Widths ==
    {k * InchesPerFoot : k \in -1..MaxWidthFt}
        \cup {DefaultWidth * InchesPerFoot}

Heights ==
    {0} \cup {InchesPerFoot * Res + t : t \in 0..MaxHeightTicks}
        \cup {DefaultHeight * InchesPerFoot * Res}

Pitches ==
    (0..MaxPitchTicks)
        \cup {DefaultPitch * Res, MaxValidPitch * Res, (MaxValidPitch + 1) * Res}

Overhangs == (0..MaxOverhang) \cup {DefaultOverhang}

SheetWidths ==
    {-MinSheetWidth, 0}
        \cup (MinSheetWidth..(MinSheetWidth + MaxSheetExtra))
        \cup {DefaultSheetWidth, MaxSheetWidth}

ShedWidths ==
    {<< >>, <<DefaultShedWidth * InchesPerFoot>>}
        \cup {<<k * InchesPerFoot>> : k \in -1..MaxShedFt}

ShedDepths ==
    {<< >>, <<DefaultShedDepth * InchesPerFoot>>}
        \cup {<<k * InchesPerFoot>> : k \in -1..MaxShedFt}

ShedPitches ==
    {<< >>, <<DefaultShedPitch * Res>>} \cup {<<k>> : k \in 0..MaxPitchTicks}

ShedHeights ==
    {<< >>, <<0>>, <<DefaultShedHeight * InchesPerFoot * Res>>}

\* a call of the main building's arguments, without a shed or with the
\* form's default shed
BuildingCall ==
    /\ length \in Lengths
    /\ width \in Widths
    /\ height \in Heights
    /\ pitch \in Pitches
    /\ overhang \in Overhangs
    /\ sheet_width \in SheetWidths
    /\ \/ /\ include_shed = FALSE
          /\ shed_width = << >> /\ shed_depth = << >>
          /\ shed_pitch = << >> /\ shed_height = << >>
       \/ /\ include_shed = TRUE
          /\ shed_width = <<DefaultShedWidth * InchesPerFoot>>
          /\ shed_depth = <<DefaultShedDepth * InchesPerFoot>>
          /\ shed_pitch = <<DefaultShedPitch * Res>>
          /\ shed_height = <<DefaultShedHeight * InchesPerFoot * Res>>

\* a call of the shed's arguments, on the form's default building
ShedCall ==
    /\ length = DefaultLength * InchesPerFoot
    /\ width \in {InchesPerFoot, DefaultWidth * InchesPerFoot}
    /\ height = DefaultHeight * InchesPerFoot * Res
    /\ pitch = DefaultPitch * Res
    /\ overhang = DefaultOverhang
    /\ sheet_width \in {0, MinSheetWidth, DefaultSheetWidth, MaxSheetWidth}
    /\ include_shed \in BOOLEAN
    /\ shed_width \in ShedWidths
    /\ shed_depth \in ShedDepths
    /\ shed_pitch \in ShedPitches
    /\ shed_height \in ShedHeights

Init ==
    /\ pc = "call"
    /\ results = << >>
    /\ BuildingCall \/ ShedCall

\* the body of calculate_sheathing: the division by sheet_width_ft raises
\* ZeroDivisionError when sheet_width is 0, before any result exists
Calculate ==
    /\ pc = "call"
    /\ \/ /\ sheet_width = 0
          /\ pc' = "raised"
          /\ results' = << >>
       \/ /\ sheet_width # 0
          /\ pc' = "returned"
          /\ results' =
                base_sections(length, width, height, pitch, overhang,
                              sheet_width)
                \o (IF shed_selected(include_shed, shed_width, shed_depth,
                                     shed_pitch, shed_height)
                    THEN shed_sections(sheet_width, shed_width[1],
                                       shed_depth[1], shed_pitch[1],
                                       shed_height[1])
                    ELSE << >>)
    /\ UNCHANGED args

Next == Calculate

Spec == Init /\ [][Next]_vars


\* ----------------------------------------------------------------- claims

Returned == pc = "returned"

Keys(res) == [i \in 1..Len(res) |-> res[i].Section]

Lookup(res, name) == res[CHOOSE i \in 1..Len(res) : res[i].Section = name]

BaseKeys == << "Eave Walls", "Gable Triangles", "Roof" >>

ShedKeys == << "Shed Front/Back Walls", "Shed Side Wall", "Shed Roof" >>

GableLengths == Lookup(results, "Gable Triangles").SheetLengths

\* every required dimension positive and the pitch in (0, 12]
ValidInput ==
    /\ length > 0 /\ width > 0 /\ height > 0 /\ sheet_width > 0
    /\ pitch > 0 /\ pitch <= MaxValidPitch * Res

ShedArgs == << shed_width, shed_depth, shed_pitch, shed_height >>

ShedAllNone == \A i \in 1..4 : ShedArgs[i] = << >>

ShedAllGiven == \A i \in 1..4 : ShedArgs[i] # << >>

ShedIncomplete == \E i \in 1..4 : ShedArgs[i] = << >> \/ ShedArgs[i][1] <= 0

C2_StrictlyUpThenDown ==
    (Returned /\ ValidInput) =>
        LET L == GableLengths
            n == Len(L)
        IN  /\ \A k \in 1..(n - 1) : L[k] # L[k + 1]
            /\ \E m \in 1..n :
                 /\ \A k \in 1..(m - 1) : L[k] < L[k + 1]
                 /\ \A k \in m..(n - 1) : L[k] > L[k + 1]

\* C3: for valid input the roof sheet length r (a whole number of half
\* feet) satisfies r/2 >= L and r/2 - L < 1/2, where L is the slope length
\* with L^2 = halfGableWidth^2 + peakHeight^2.  Both sides are compared
\* squared, in units of 1/(288 * Res) ft.
C3_RoofLengthCoversSlope ==
    (Returned /\ ValidInput) =>
        LET r == Lookup(results, "Roof").SheetLength
            half == (width + 2 * overhang) * InchesPerFoot * Res
            peak == (width + 2 * overhang) * pitch
            Lsq == half * half + peak * peak
            u == 144 * Res
        IN  /\ r >= 1
            /\ (r * u) * (r * u) >= Lsq
            /\ ((r - 1) * u) * ((r - 1) * u) < Lsq

C3_Witness ==
    /\ Returned /\ ValidInput
    /\ width = DefaultWidth * InchesPerFoot
    /\ overhang = DefaultOverhang
    /\ pitch = DefaultPitch * Res
    /\ Lookup(results, "Roof").SheetLength = 35

C5_IncompleteShedSuppressed ==
    (pc # "call" /\ ValidInput /\ include_shed /\ ShedIncomplete) =>
        (Returned /\ Keys(results) = BaseKeys)

\* C6 (as claimed): the call fails, with no result, exactly when a required
\* dimension is non-positive or the pitch is outside (0, 12].
C6_FailsExactlyOnInvalidInput ==
    (pc # "call") => ((pc = "raised" /\ results = << >>) <=> ~ValidInput)

\* C7 (as claimed): a sheet wider than the building raises nothing and the
\* gable triangles report zero panels.
C7_WideSheetZeroPanels ==
    (pc # "call" /\ width > 0 /\ sheet_width > width) =>
        /\ Returned
        /\ Lookup(results, "Gable Triangles").Sheets = 0
        /\ GableLengths = << >>

\* C7 (amended): a sheet wider than a building of positive width raises
\* nothing and the gable triangles report one panel per side: a list of
\* two equal lengths and Sheets = 4.
C7_WideSheetOnePanelPerSide ==
    (pc # "call" /\ width > 0 /\ sheet_width > width) =>
        /\ Returned
        /\ Lookup(results, "Gable Triangles").Sheets = 4
        /\ Len(GableLengths) = 2
        /\ GableLengths[1] = GableLengths[2]

C7_Witness ==
    /\ Returned
    /\ width = InchesPerFoot
    /\ sheet_width = MaxSheetWidth
    /\ Lookup(results, "Gable Triangles").Sheets = 4

\* C8: without an attachment (include_shed false, or every shed argument
\* None) the result holds exactly Eave Walls, Gable Triangles, Roof in that
\* order; with a selected shed whose four dimensions are given, the three
\* shed sections follow them in order.
C8_SectionKeys ==
    Returned =>
        /\ (~include_shed \/ ShedAllNone) => Keys(results) = BaseKeys
        /\ (include_shed /\ ShedAllGiven) =>
               Keys(results) = BaseKeys \o ShedKeys

C8_Witness ==
    /\ Returned /\ include_shed /\ ShedAllGiven
    /\ Len(results) = 6
    /\ results[4].Section = "Shed Front/Back Walls"
    /\ results[6].Section = "Shed Roof"

\* C9 (as claimed): for valid input the k-th ascending gable entry is at
\* least its unrounded value wallHeight + k * risePerSheetFt (compared in
\* ticks).
C9_GableLengthNeverRoundedDown ==
    (Returned /\ ValidInput) =>
        LET rise == rise_per_sheet_inches(sheet_width, pitch)
        IN  \A k \in 1..(Len(GableLengths) \div 2) :
              GableLengths[k] * Res >= height + k * rise * Res

\* C10 (as claimed): for valid input the panels of one side span the half
\* gable width: sheetsPerSide * sheetWidthFt >= (width + 2 * overhangFt) / 2
\* (compared in half inches).
C10_SideSpansHalfGableWidth ==
    (Returned /\ ValidInput /\ overhang >= 0) =>
        (Len(GableLengths) \div 2) * 2 * sheet_width >= width + 2 * overhang


=============================================================================
